---- MODULE Spec2Model ----
(***************************************************************************)
(* A model of src/src/lib.rs: tetrahedralize, the incremental              *)
(* (Bowyer-Watson style) 3d Delaunay edge extraction, with its helpers      *)
(* make_super_tetrahedron, Tetrahedron, Triangle, Edge and Vertex.          *)
(*                                                                         *)
(* Coordinates are small integers, which f64 represents exactly, so every   *)
(* subtraction, product and comparison of the source is exact here.         *)
(* robust::insphere is the sign-exact adaptive evaluation of Shewchuk's     *)
(* in-sphere determinant; it is modelled by that determinant.               *)
(***************************************************************************)
EXTENDS Integers, Sequences, FiniteSets, TLC

VARIABLES
    vertices,      \* the argument of tetrahedralize
    pc,            \* position in tetrahedralize
    vi,            \* index of the vertex the outer loop is at (1-based)
    ti,            \* index of the tetrahedron the inner loop is at (1-based)
    st,            \* the super tetrahedron, NoTetrahedron before line 15
    tetrahedrons,  \* Vec<Tetrahedron>
    triangles,     \* Vec<Triangle> of the current outer iteration
    result         \* Option<HashSet<Edge>>, NotReturned until the return

vars == <<vertices, pc, vi, ti, st, tetrahedrons, triangles, result>>

(***************************************************************************)
(* Bounds and the input domain.                                            *)
(***************************************************************************)
\* longest input sequence
MaxLen == 5

\* The points inputs are drawn from, in a fixed enumeration: four
\* non-coplanar points and a fifth strictly inside their circumsphere, no
\* four of the five coplanar.
PointSeq == << <<0, 0, 0>>, <<2, 0, 0>>, <<0, 2, 0>>, <<0, 0, 2>>, <<1, 1, 1>> >>

Points == {PointSeq[i] : i \in 1..Len(PointSeq)}

RECURSIVE SeqsUpTo(_, _)
SeqsUpTo(S, n) ==
    IF n = 0 THEN {<<>>}
    ELSE LET shorter == SeqsUpTo(S, n - 1)
         IN  shorter \cup {Append(s, x) : s \in {q \in shorter : Len(q) = n - 1}, x \in S}

Inputs == SeqsUpTo(Points, MaxLen)

(***************************************************************************)
(* Vertex (lines 239-279).                                                 *)
(***************************************************************************)
X(v) == v[1]
Y(v) == v[2]
Z(v) == v[3]

\* Vertex::new
Vertex(x, y, z) == <<x, y, z>>

Sq(n) == n * n

\* the tolerance 0.01 of Vertex::almost_equal, in hundredths
ToleranceHundredths == 1

\* Vertex::almost_equal: squared distance < 0.01
VertexAlmostEqual(u, v) ==
    100 * (Sq(X(u) - X(v)) + Sq(Y(u) - Y(v)) + Sq(Z(u) - Z(v))) < ToleranceHundredths

\* PartialEq for Vertex: coordinate-wise equality
VertexEq(u, v) == X(u) = X(v) /\ Y(u) = Y(v) /\ Z(u) = Z(v)

(***************************************************************************)
(* Tetrahedron, Triangle, Edge (lines 159-237).                            *)
(***************************************************************************)
NoTetrahedron == [none |-> TRUE]

\* Tetrahedron::new
NewTetrahedron(a, b, c, d) == [a |-> a, b |-> b, c |-> c, d |-> d, is_bad |-> FALSE]

\* Triangle::new
NewTriangle(a, b, c) == [a |-> a, b |-> b, c |-> c, is_bad |-> FALSE]

\* Edge::new; the derived Eq/Hash of Edge compare the fields a and b in order
NewEdge(a, b) == [a |-> a, b |-> b]

\* robust::insphere(qa, qb, qc, qd, qe): the in-sphere determinant.  Positive
\* when qe is inside the sphere through qa..qd and qa..qd are positively
\* oriented (orient3d > 0); the sign is reversed for the other orientation.
InSphere(qa, qb, qc, qd, qe) ==
    LET aex == X(qa) - X(qe)   aey == Y(qa) - Y(qe)   aez == Z(qa) - Z(qe)
        bex == X(qb) - X(qe)   bey == Y(qb) - Y(qe)   bez == Z(qb) - Z(qe)
        cex == X(qc) - X(qe)   cey == Y(qc) - Y(qe)   cez == Z(qc) - Z(qe)
        dex == X(qd) - X(qe)   dey == Y(qd) - Y(qe)   dez == Z(qd) - Z(qe)
        ab == aex * bey - bex * aey
        bc == bex * cey - cex * bey
        cd == cex * dey - dex * cey
        da == dex * aey - aex * dey
        ac == aex * cey - cex * aey
        bd == bex * dey - dex * bey
        abc == aez * bc - bez * ac + cez * ab
        bcd == bez * cd - cez * bd + dez * bc
        cda == cez * da + dez * ac + aez * cd
        dab == dez * ab + aez * bd + bez * da
        alift == aex * aex + aey * aey + aez * aez
        blift == bex * bex + bey * bey + bez * bez
        clift == cex * cex + cey * cey + cez * cez
        dlift == dex * dex + dey * dey + dez * dez
    IN  (dlift * abc - clift * dab) + (blift * cda - alift * bcd)

\* mutant of InCircumsphere: the comparison is turned around
InCircumsphereNegative(t, v) == InSphere(t.a, t.b, t.c, t.d, v) < 0

\* Tetrahedron::in_circumsphere
InCircumsphere(t, v) == InSphere(t.a, t.b, t.c, t.d, v) > 0

\* Tetrahedron::contains_vertex
ContainsVertex(t, v) ==
    \/ VertexAlmostEqual(v, t.a)
    \/ VertexAlmostEqual(v, t.b)
    \/ VertexAlmostEqual(v, t.c)
    \/ VertexAlmostEqual(v, t.d)

\* Triangle::almost_equal
TriangleAlmostEqual(s, t) ==
    /\ (VertexAlmostEqual(s.a, t.a) \/ VertexAlmostEqual(s.a, t.b) \/ VertexAlmostEqual(s.a, t.c))
    /\ (VertexAlmostEqual(s.b, t.a) \/ VertexAlmostEqual(s.b, t.b) \/ VertexAlmostEqual(s.b, t.c))
    /\ (VertexAlmostEqual(s.c, t.a) \/ VertexAlmostEqual(s.c, t.b) \/ VertexAlmostEqual(s.c, t.c))

(***************************************************************************)
(* make_super_tetrahedron (lines 90-157).                                  *)
(***************************************************************************)
\* one pass of the loop of lines 98-120 over vertices[i..]
RECURSIVE BoundingBox(_, _, _)
BoundingBox(vs, i, box) ==
    IF i > Len(vs) THEN box
    ELSE LET px == X(vs[i])
             py == Y(vs[i])
             pz == Z(vs[i])
             bx == IF px < box.x_min THEN [box EXCEPT !.x_min = px]
                   ELSE IF px > box.x_max THEN [box EXCEPT !.x_max = px]
                   ELSE box
             by == IF py < bx.y_min THEN [bx EXCEPT !.y_min = py]
                   ELSE IF py > bx.y_max THEN [bx EXCEPT !.y_max = py]
                   ELSE bx
             bz == IF pz < by.z_min THEN [by EXCEPT !.z_min = pz]
                   ELSE IF pz > by.z_max THEN [by EXCEPT !.z_max = pz]
                   ELSE by
         IN  BoundingBox(vs, i + 1, bz)

\* lines 91-120: the box starts at vertices[0] and the loop skips it
Bounds(vs) ==
    BoundingBox(vs, 2, [x_min |-> X(vs[1]), x_max |-> X(vs[1]),
                        y_min |-> Y(vs[1]), y_max |-> Y(vs[1]),
                        z_min |-> Z(vs[1]), z_max |-> Z(vs[1])])

Max2(m, n) == IF m >= n THEN m ELSE n

\* lines 122-125
DMax(box) ==
    LET dx == box.x_max - box.x_min
        dy == box.y_max - box.y_min
        dz == box.z_max - box.z_min
    IN  Max2(dx, Max2(dy, dz)) * 2

\* lines 127-156
MakeSuperTetrahedron(vs) ==
    LET box == Bounds(vs)
        d_max == DMax(box)
    IN  NewTetrahedron(
            Vertex(box.x_min - 1, box.y_min - 1, box.z_min - 1),
            Vertex(box.x_max + d_max, box.y_min - 1, box.z_min - 1),
            Vertex(box.x_min - 1, box.y_max + d_max, box.z_min - 1),
            Vertex(box.x_min - 1, box.y_min - 1, box.z_max + d_max))

(***************************************************************************)
(* The steps of tetrahedralize (lines 7-88) as operators.                  *)
(***************************************************************************)
NotReturned == [returned |-> FALSE]
\* None
NoneResult == [returned |-> TRUE, some |-> FALSE, edges |-> {}]
\* Some(edges)
SomeResult(edges) == [returned |-> TRUE, some |-> TRUE, edges |-> edges]

\* mutant of IsEmpty: a single vertex counts as nothing to tetrahedralize
IsEmptyOrSingle(vs) == Len(vs) <= 1

\* line 8: vertices.is_empty()
IsEmpty(vs) == Len(vs) = 0

\* mutant of EmptyInputResult: an empty set instead of None
EmptyInputResultSome == SomeResult({})

\* line 10: the result on empty input
EmptyInputResult == NoneResult

\* lines 24-30: mark t and collect its four faces when vertex is in its
\* circumsphere
PushFaces(tris, t) ==
    tris \o << NewTriangle(t.a, t.b, t.c), NewTriangle(t.a, t.b, t.d),
               NewTriangle(t.a, t.c, t.d), NewTriangle(t.b, t.c, t.d) >>

\* lines 33-40: triangles[i] and triangles[j] are both marked for every
\* i <= j (j starts at i) with triangles[i].almost_equal(&triangles[j])
MarkDuplicates(tris) ==
    [k \in 1..Len(tris) |->
        [tris[k] EXCEPT !.is_bad =
            \/ tris[k].is_bad
            \/ \E j \in k..Len(tris) : TriangleAlmostEqual(tris[k], tris[j])
            \/ \E i \in 1..k : TriangleAlmostEqual(tris[i], tris[k])]]

\* lines 23-41, one iteration of the inner loop, at tetrahedron number i
ScanOne(tets, tris, i, vertex) ==
    LET bad == InCircumsphere(tets[i], vertex)
        tets1 == IF bad THEN [tets EXCEPT ![i].is_bad = TRUE] ELSE tets
        tris1 == IF bad THEN PushFaces(tris, tets[i]) ELSE tris
    IN  [tets |-> tets1, tris |-> MarkDuplicates(tris1)]

\* lines 43-48: the filter keeps the tetrahedrons with is_bad set
KeepTetrahedron(t) == t.is_bad
DiscardTetrahedrons(tets) == SelectSeq(tets, KeepTetrahedron)

\* lines 49-54: the filter keeps the triangles with is_bad set
KeepTriangle(t) == t.is_bad
DiscardTriangles(tris) == SelectSeq(tris, KeepTriangle)

\* lines 57-59
Rebuilt(tets, tris, vertex) ==
    tets \o [k \in 1..Len(tris) |->
                NewTetrahedron(tris[k].a, tris[k].b, tris[k].c, vertex)]

\* lines 69-74: the closure of the final filter
ContainsSuperVertex(t, s) ==
    \/ ContainsVertex(t, s.a)
    \/ ContainsVertex(t, s.b)
    \/ ContainsVertex(t, s.c)
    \/ ContainsVertex(t, s.d)

\* lines 65-75
StripSuper(tets, s) ==
    LET Keep(t) == ~ContainsSuperVertex(t, s) IN SelectSeq(tets, Keep)

\* lines 79-84: the six edges of one tetrahedron
EdgesOf(t) ==
    { NewEdge(t.a, t.b), NewEdge(t.b, t.c), NewEdge(t.c, t.a),
      NewEdge(t.d, t.a), NewEdge(t.d, t.b), NewEdge(t.d, t.c) }

\* lines 77-85: the HashSet after every insert
EdgeSet(tets) == UNION {EdgesOf(tets[k]) : k \in 1..Len(tets)}

(***************************************************************************)
(* tetrahedralize as one function, composed of the steps above.            *)
(***************************************************************************)
RECURSIVE ScanFrom(_, _, _, _)
ScanFrom(tets, tris, i, vertex) ==
    IF i > Len(tets) THEN [tets |-> tets, tris |-> tris]
    ELSE LET s == ScanOne(tets, tris, i, vertex)
         IN  ScanFrom(s.tets, s.tris, i + 1, vertex)

\* lines 21-59: one iteration of the outer loop
InsertVertex(tets, vertex) ==
    LET s == ScanFrom(tets, <<>>, 1, vertex)
    IN  Rebuilt(DiscardTetrahedrons(s.tets), DiscardTriangles(s.tris), vertex)

RECURSIVE InsertFrom(_, _, _)
InsertFrom(tets, vs, i) ==
    IF i > Len(vs) THEN tets
    ELSE InsertFrom(InsertVertex(tets, vs[i]), vs, i + 1)

Tetrahedralize(vs) ==
    IF IsEmpty(vs) THEN EmptyInputResult
    ELSE LET s == MakeSuperTetrahedron(vs)
         IN  SomeResult(EdgeSet(StripSuper(InsertFrom(<<s>>, vs, 1), s)))

(***************************************************************************)
(* The state machine.                                                      *)
(***************************************************************************)
Init ==
    /\ vertices \in Inputs
    /\ pc = "start"
    /\ vi = 1
    /\ ti = 1
    /\ st = NoTetrahedron
    /\ tetrahedrons = <<>>
    /\ triangles = <<>>
    /\ result = NotReturned

\* lines 8-11
ReturnNone ==
    /\ pc = "start"
    /\ IsEmpty(vertices)
    /\ result' = EmptyInputResult
    /\ pc' = "done"
    /\ UNCHANGED <<vertices, vi, ti, st, tetrahedrons, triangles>>

\* lines 15-18
Construct ==
    /\ pc = "start"
    /\ ~IsEmpty(vertices)
    /\ st' = MakeSuperTetrahedron(vertices)
    /\ tetrahedrons' = <<st'>>
    /\ pc' = "loop"
    /\ UNCHANGED <<vertices, vi, ti, triangles, result>>

\* lines 20-21: the outer loop takes the next vertex
NextVertex ==
    /\ pc = "loop"
    /\ vi <= Len(vertices)
    /\ triangles' = <<>>
    /\ ti' = 1
    /\ pc' = "scan"
    /\ UNCHANGED <<vertices, vi, st, tetrahedrons, result>>

\* lines 23-41: one iteration of the inner loop
ScanTetrahedron ==
    /\ pc = "scan"
    /\ ti <= Len(tetrahedrons)
    /\ LET s == ScanOne(tetrahedrons, triangles, ti, vertices[vi])
       IN  /\ tetrahedrons' = s.tets
           /\ triangles' = s.tris
    /\ ti' = ti + 1
    /\ UNCHANGED <<vertices, pc, vi, st, result>>

\* lines 43-54
Discard ==
    /\ pc = "scan"
    /\ ti > Len(tetrahedrons)
    /\ tetrahedrons' = DiscardTetrahedrons(tetrahedrons)
    /\ triangles' = DiscardTriangles(triangles)
    /\ pc' = "rebuild"
    /\ UNCHANGED <<vertices, vi, ti, st, result>>

\* lines 57-60
Rebuild ==
    /\ pc = "rebuild"
    /\ tetrahedrons' = Rebuilt(tetrahedrons, triangles, vertices[vi])
    /\ vi' = vi + 1
    /\ pc' = "loop"
    /\ UNCHANGED <<vertices, ti, st, triangles, result>>

\* lines 65-75
Strip ==
    /\ pc = "loop"
    /\ vi > Len(vertices)
    /\ tetrahedrons' = StripSuper(tetrahedrons, st)
    /\ pc' = "emit"
    /\ UNCHANGED <<vertices, vi, ti, st, triangles, result>>

\* lines 77-87
Emit ==
    /\ pc = "emit"
    /\ result' = SomeResult(EdgeSet(tetrahedrons))
    /\ pc' = "done"
    /\ UNCHANGED <<vertices, vi, ti, st, tetrahedrons, triangles>>

Next ==
    \/ ReturnNone
    \/ Construct
    \/ NextVertex
    \/ ScanTetrahedron
    \/ Discard
    \/ Rebuild
    \/ Strip
    \/ Emit

Spec == Init /\ [][Next]_vars

(***************************************************************************)
(* Geometry the claims are stated in.                                      *)
(***************************************************************************)
\* Shewchuk's orient3d determinant: positive when d is below the plane of
\* a, b, c seen counterclockwise from above
Orient3D(a, b, c, d) ==
    LET adx == X(a) - X(d)   ady == Y(a) - Y(d)   adz == Z(a) - Z(d)
        bdx == X(b) - X(d)   bdy == Y(b) - Y(d)   bdz == Z(b) - Z(d)
        cdx == X(c) - X(d)   cdy == Y(c) - Y(d)   cdz == Z(c) - Z(d)
    IN  adx * (bdy * cdz - bdz * cdy)
          + bdx * (cdy * adz - cdz * ady)
          + cdx * (ady * bdz - adz * bdy)

Sign(n) == IF n > 0 THEN 1 ELSE IF n < 0 THEN -1 ELSE 0

\* p is in the interior of the tetrahedron t
StrictlyInside(p, t) ==
    LET o == Sign(Orient3D(t.a, t.b, t.c, t.d))
    IN  /\ o # 0
        /\ Sign(Orient3D(p, t.b, t.c, t.d)) = o
        /\ Sign(Orient3D(t.a, p, t.c, t.d)) = o
        /\ Sign(Orient3D(t.a, t.b, p, t.d)) = o
        /\ Sign(Orient3D(t.a, t.b, t.c, p)) = o

\* the eight corners of the axis-aligned bounding box of the input
BoxCorners(vs) ==
    LET box == Bounds(vs)
    IN  {Vertex(x, y, z) : x \in {box.x_min, box.x_max},
                           y \in {box.y_min, box.y_max},
                           z \in {box.z_min, box.z_max}}

Range(s) == {s[k] : k \in 1..Len(s)}

\* the four vertices of a cell
Corners(s) == {s.a, s.b, s.c, s.d}

\* an edge without its direction
Undirected(edges) == {{e.a, e.b} : e \in edges}

CellsOfSeq(tets) == {tets[k] : k \in 1..Len(tets)}

\* a cell or a face without its marker
Unmarked(t) == [t EXCEPT !.is_bad = FALSE]

IsInput(v) == \E j \in 1..Len(vertices) : VertexEq(v, vertices[j])

IsCorner(v) == st # NoTetrahedron /\ v \in Corners(st)

Returned == pc = "done"

\* distinct points, no four coplanar, no five cospherical
GeneralPosition(vs) ==
    LET n == Len(vs)
    IN  /\ Cardinality(Range(vs)) = n
        /\ \A S \in SUBSET Range(vs) :
              /\ Cardinality(S) = 4 =>
                    \A a \in S, b \in S, c \in S, d \in S :
                        Cardinality({a, b, c, d}) = 4 => Orient3D(a, b, c, d) # 0
              /\ Cardinality(S) = 5 =>
                    \A a \in S, b \in S, c \in S, d \in S, e \in S :
                        Cardinality({a, b, c, d, e}) = 5 => InSphere(a, b, c, d, e) # 0

Permuted(vs, f) == [k \in 1..Len(vs) |-> vs[f[k]]]

(***************************************************************************)
(* Runs from the entry point.  The corners make_super_tetrahedron returns   *)
(* are negatively oriented, so insphere is never positive for an input     *)
(* point: the only cell ever scanned is st, it is never marked, no face is *)
(* ever collected, the filter of lines 43-48 drops st at the first vertex, *)
(* and every non-empty input returns Some of the empty set.                *)
(***************************************************************************)
NoCellEverViolated ==
    (pc = "scan" /\ ti <= Len(tetrahedrons)) =>
        ~InCircumsphere(tetrahedrons[ti], vertices[vi])

NoFaceEverCollected == triangles = <<>>

NoCellAfterFirstVertex == (pc = "loop" /\ vi > 1) => tetrahedrons = <<>>

NonEmptyInputReturnsEmptySet ==
    (pc = "done" /\ vertices # <<>>) => result = SomeResult({})

(***************************************************************************)
(* The claims.                                                             *)
(***************************************************************************)

\* C1: every returned edge is an edge of a cell of four input points that
\* survived the corner filter, and once all input points are processed no
\* input point is strictly inside (in-sphere sign > 0) the circumsphere of a
\* cell that survives the filter and contributes edges.  It holds in every
\* run, of the empty edge set only (NonEmptyInputReturnsEmptySet): no run
\* returns an edge or keeps a cell, so its case is never reached.
C1_EmptyCircumsphere ==
    (Returned /\ result.some) =>
        /\ \A e \in result.edges :
              \E t \in CellsOfSeq(tetrahedrons) :
                  /\ e \in EdgesOf(t)
                  /\ \A v \in Corners(t) : IsInput(v)
        /\ \A t \in CellsOfSeq(tetrahedrons) :
              \A j \in 1..Len(vertices) : ~InCircumsphere(t, vertices[j])

\* C2: both endpoints of every returned edge are structurally equal to an
\* input point, no corner of the super tetrahedron is an endpoint, and no
\* cell that contains a corner is left when the edges are emitted.  It
\* holds in every run, of the empty edge set only: the final filter never
\* sees a cell (NoCellAfterFirstVertex).
C2_EndpointsAreInputs ==
    /\ (Returned /\ result.some) =>
          \A e \in result.edges :
              /\ IsInput(e.a) /\ IsInput(e.b)
              /\ ~IsCorner(e.a) /\ ~IsCorner(e.b)
    /\ pc \in {"emit", "done"} =>
          \A t \in CellsOfSeq(tetrahedrons) : Corners(t) \cap Corners(st) = {}

\* C3: exactly four non-coplanar input points, in any order, give exactly
\* the six edges between them.
C3_FourPointsSixEdges ==
    (/\ Returned
     /\ Len(vertices) = 4
     /\ Orient3D(vertices[1], vertices[2], vertices[3], vertices[4]) # 0) =>
        /\ result.some
        /\ Cardinality(result.edges) = 6
        /\ Undirected(result.edges) =
              {{vertices[i], vertices[j]} : i \in 1..4, j \in 1..4} \ {{vertices[k]} : k \in 1..4}

\* C4: the result is None exactly when the input is empty, Some for every
\* non-empty input, and on empty input no super tetrahedron or cell is built.
C4_NoneIffEmpty ==
    Returned =>
        /\ (result = NoneResult) <=> (Len(vertices) = 0)
        /\ Len(vertices) > 0 => result.some
        /\ Len(vertices) = 0 => (st = NoTetrahedron /\ tetrahedrons = <<>>)

\* C4's case: the call with the empty input has returned
C4_Witness == Returned /\ vertices = <<>> /\ result = NoneResult

\* C5: the returned set never holds both Edge(a,b) and Edge(b,a) for two
\* distinct points a and b.  It holds in every run, of the empty edge set
\* only; NewEdge keeps the direction, so a set with edges could hold both.
C5_EdgeSymmetry ==
    (Returned /\ result.some) =>
        \A e \in result.edges :
            e.a # e.b => NewEdge(e.b, e.a) \notin result.edges

\* C6: every input point and every corner of the input's bounding box is
\* strictly inside the super tetrahedron.
C6_SuperContainsInput ==
    st # NoTetrahedron =>
        /\ \A j \in 1..Len(vertices) : StrictlyInside(vertices[j], st)
        /\ \A c \in BoxCorners(vertices) : StrictlyInside(c, st)

\* C7: for distinct points in general position, every permutation of the
\* input gives the same set of undirected edges.
C7_OrderIndependent ==
    (Returned /\ Len(vertices) > 0 /\ GeneralPosition(vertices)) =>
        \A f \in Permutations(1..Len(vertices)) :
            LET other == Tetrahedralize(Permuted(vertices, f))
            IN  /\ other.some = result.some
                /\ Undirected(other.edges) = Undirected(result.edges)

\* C7's case: four or more points in general position were tetrahedralized
C7_Witness ==
    /\ Returned
    /\ Len(vertices) >= 4
    /\ GeneralPosition(vertices)
    /\ result.some

\* C8: exactly one input point gives Some of the empty edge set.
C8_OnePointEmptySet ==
    (Returned /\ Len(vertices) = 1) => result = SomeResult({})

\* C8's case: the call with one point has returned
C8_Witness == Returned /\ Len(vertices) = 1 /\ result.some

\* C9: the discard phase of the step for p removes exactly the cells whose
\* circumsphere strictly contains p, keeps every other cell, and leaves no
\* cell with its marker set.
C9_DiscardRemovesViolated ==
    [][(pc = "scan" /\ pc' = "rebuild") =>
          LET NotViolated(t) == ~InCircumsphere(t, vertices[vi])
              kept == SelectSeq(tetrahedrons, NotViolated)
          IN  /\ tetrahedrons' = [k \in 1..Len(kept) |-> Unmarked(kept[k])]
              /\ \A k \in 1..Len(tetrahedrons') : ~tetrahedrons'[k].is_bad]_vars

\* C10: in the step for p, a candidate face yields a new cell (a,b,c,p)
\* exactly when it matches no other, distinct candidate face of the step.
\* It holds in every run, with no candidate face at all (NoFaceEverCollected).
C10_UnmatchedFacesOnly ==
    [][/\ (pc = "scan" /\ pc' = "rebuild") =>
              LET n == Len(triangles)
                  Unmatched(i) ==
                      ~\E j \in 1..n :
                          j # i /\ TriangleAlmostEqual(triangles[i], triangles[j])
                  survivors == {i \in 1..n : Unmatched(i)}
              IN  /\ Len(triangles') = Cardinality(survivors)
                  /\ \A i \in 1..n :
                        Unmatched(i) <=>
                            \E k \in 1..Len(triangles') :
                                Unmarked(triangles'[k]) = Unmarked(triangles[i])
       /\ (pc = "rebuild" /\ pc' = "loop") =>
              tetrahedrons' =
                  tetrahedrons \o
                      [k \in 1..Len(triangles) |->
                          NewTetrahedron(triangles[k].a, triangles[k].b,
                                         triangles[k].c, vertices[vi])]]_vars

====
